---- MODULE Spec2Model ----
(***************************************************************************)
(* auditwheel/whichprovides.py: which installed OS package owns a file.   *)
(*                                                                         *)
(* Text (file contents, tool output, package names, versions, the distro  *)
(* id) is a sequence of one-character strings, so that the regular         *)
(* expressions and the split of the source are computed character by       *)
(* character.  An executable path is the pair <<directory, binaryname>>.   *)
(* Python's None and False are the one-element tuples None and False.      *)
(***************************************************************************)
EXTENDS Integers, Sequences, FiniteSets, TLC

None == <<"None">>

False == <<"False">>

Min(S) == CHOOSE x \in S : \A y \in S : x <= y

\* s[a..b] as a sequence (empty when b < a)
Slice(s, a, b) == [k \in 1..(b - a + 1) |-> s[a + k - 1]]

\* the literal lit occurs in s starting at position i
LitAt(lit, s, i) ==
    /\ i + Len(lit) - 1 <= Len(s)
    /\ \A k \in 1..Len(lit) : s[i + k - 1] = lit[k]

\* first position >= i whose character is not in class (Len(s)+1 when none)
SpanIn(s, i, class) ==
    LET stops == {j \in i..Len(s) : s[j] \notin class}
    IN  IF stops = {} THEN Len(s) + 1 ELSE Min(stops)

\* first position >= i whose character is in excluded (Len(s)+1 when none)
SpanNotIn(s, i, excluded) ==
    LET stops == {j \in i..Len(s) : s[j] \in excluded}
    IN  IF stops = {} THEN Len(s) + 1 ELSE Min(stops)

\* the regular-expression class \s
Whitespace == {" ", "\t", "\n", "\r", "\f"}

\* the regular-expression class [A-Z_]
UpperOrUnderscore ==
    {"A", "B", "C", "D", "E", "F", "G", "H", "I", "J", "K", "L", "M", "N",
     "O", "P", "Q", "R", "S", "T", "U", "V", "W", "X", "Y", "Z", "_"}

\* ^ under re.MULTILINE
AtLineStart(s, i) == i = 1 \/ (i - 1 <= Len(s) /\ s[i - 1] = "\n")

\* $ under re.MULTILINE
AtLineEnd(s, i) == i = Len(s) + 1 \/ (i <= Len(s) /\ s[i] = "\n")

\* str.strip(): the text without its leading and trailing whitespace
Strip(s) ==
    LET keep == {j \in 1..Len(s) : s[j] \notin Whitespace}
    IN  IF keep = {} THEN <<>>
        ELSE Slice(s, Min(keep), CHOOSE j \in keep : \A k \in keep : k <= j)

\* str.split(" ", maxsplit): cut at each single space, at most maxsplit times
RECURSIVE SplitSpace(_, _)
SplitSpace(s, maxsplit) ==
    LET sp == SpanNotIn(s, 1, {" "})
    IN  IF maxsplit = 0 \/ sp > Len(s) THEN <<s>>
        ELSE <<Slice(s, 1, sp - 1)>> \o SplitSpace(Slice(s, sp + 1, Len(s)), maxsplit - 1)

----------------------------------------------------------------------------
\* _OS_RELEASE_LINES_RE, re.MULTILINE: line start, a key of [A-Z_]+, an equals
\* sign, then either a double-quoted value of non-quote characters or the rest
\* of the line, then line end

\* one match attempt at position i: groups and the position after the match
OsReleaseMatchAt(s, i) ==
    LET k == SpanIn(s, i, UpperOrUnderscore)
        v == k + 1
        q == SpanNotIn(s, v + 1, {"\""})
        e == SpanNotIn(s, v, {"\n"})
        keyed == AtLineStart(s, i) /\ k > i /\ k <= Len(s) /\ s[k] = "="
        quoted == v <= Len(s) /\ s[v] = "\"" /\ q <= Len(s) /\ AtLineEnd(s, q + 1)
    IN  IF ~keyed THEN [ok |-> FALSE]
        ELSE IF quoted
        THEN [ok |-> TRUE, name |-> Slice(s, i, k - 1),
              value_quoted |-> Slice(s, v + 1, q - 1), value_unquoted |-> <<>>,
              end |-> q + 1]
        ELSE [ok |-> TRUE, name |-> Slice(s, i, k - 1),
              value_quoted |-> <<>>, value_unquoted |-> Slice(s, v, e - 1),
              end |-> e]

\* findall over the text, filling the dict (a function from names to values)
RECURSIVE OsReleaseScan(_, _, _)
OsReleaseScan(s, i, os_release) ==
    IF i > Len(s) THEN os_release
    ELSE LET m == OsReleaseMatchAt(s, i)
         IN  IF ~m.ok THEN OsReleaseScan(s, i + 1, os_release)
             ELSE LET value == IF m.value_quoted # <<>> THEN m.value_quoted
                               ELSE m.value_unquoted
                  IN  OsReleaseScan(s, m.end,
                        [n \in DOMAIN os_release \cup {m.name} |->
                            IF n = m.name THEN value ELSE os_release[n]])

\* _os_release() of a file [status, text]: open() raising OSError gives the
\* empty dict
OsRelease(file) ==
    IF file.status = "OSError" THEN <<>>
    ELSE OsReleaseScan(file.text, 1, <<>>)

\* dict.get(key, None)
DictGet(d, key) == IF key \in DOMAIN d THEN d[key] ELSE None

\* Truthy with the slip of testing `is not None`: the empty string passes
Truthy_NotNone(x) == x # None /\ x # False

\* Python truthiness of an optional string
Truthy(x) == x # None /\ x # False /\ x # <<>>

----------------------------------------------------------------------------
\* _APK_WHO_OWNS_RE: the literal IsOwnedBy, a name of [^\s\-]+, a hyphen, a
\* version of [^\s]+, and \Z (the very end of the text, whatever the flags)

IsOwnedBy == <<" ", "i", "s", " ", "o", "w", "n", "e", "d", " ", "b", "y", " ">>

\* ApkMatchAt with the slip of a name class that admits hyphens: the name
\* then runs to the last hyphen
ApkMatchAt_GreedyName(s, i) ==
    LET n == i + Len(IsOwnedBy)
        e == SpanNotIn(s, n, Whitespace)
        hyphens == {k \in (n + 1)..(e - 2) : s[k] = "-"}
        h == CHOOSE k \in hyphens : \A j \in hyphens : j <= k
    IN  IF LitAt(IsOwnedBy, s, i) /\ hyphens # {} /\ e = Len(s) + 1
        THEN [ok |-> TRUE, g1 |-> Slice(s, n, h - 1), g2 |-> Slice(s, h + 1, Len(s))]
        ELSE [ok |-> FALSE]

ApkMatchAt(s, i) ==
    LET n == i + Len(IsOwnedBy)
        h == SpanNotIn(s, n, Whitespace \cup {"-"})
        e == SpanNotIn(s, h + 1, Whitespace)
    IN  IF /\ LitAt(IsOwnedBy, s, i)
           /\ h > n /\ h <= Len(s) /\ s[h] = "-"
           /\ e > h + 1 /\ e = Len(s) + 1
        THEN [ok |-> TRUE, g1 |-> Slice(s, n, h - 1), g2 |-> Slice(s, h + 1, Len(s))]
        ELSE [ok |-> FALSE]

\* re.search: the leftmost position at which the pattern matches
ApkWhoOwnsSearch(s) ==
    LET hits == {i \in 1..Len(s) : ApkMatchAt(s, i).ok}
    IN  IF hits = {} THEN [ok |-> FALSE] ELSE ApkMatchAt(s, Min(hits))

\* _DPKG_SEARCH_RE, no MULTILINE: [^:]+ from the start of the text, then a colon
DpkgSearchSearch(s) ==
    LET c == SpanNotIn(s, 1, {":"})
    IN  IF c > 1 /\ c <= Len(s)
        THEN [ok |-> TRUE, g1 |-> Slice(s, 1, c - 1)]
        ELSE [ok |-> FALSE]

\* _DPKG_VERSION_RE, re.MULTILINE: line start, VersionLit, a value of [^\s]+
VersionLit == <<"V", "e", "r", "s", "i", "o", "n", ":", " ">>

\* DpkgVersionMatchAt with the slip of * for +: an empty value matches
DpkgVersionMatchAt_EmptyValue(s, i) ==
    LET v == i + Len(VersionLit)
        e == SpanNotIn(s, v, Whitespace)
    IN  IF AtLineStart(s, i) /\ LitAt(VersionLit, s, i)
        THEN [ok |-> TRUE, g1 |-> Slice(s, v, e - 1)]
        ELSE [ok |-> FALSE]

DpkgVersionMatchAt(s, i) ==
    LET v == i + Len(VersionLit)
        e == SpanNotIn(s, v, Whitespace)
    IN  IF AtLineStart(s, i) /\ LitAt(VersionLit, s, i) /\ e > v
        THEN [ok |-> TRUE, g1 |-> Slice(s, v, e - 1)]
        ELSE [ok |-> FALSE]

DpkgVersionSearch(s) ==
    LET hits == {i \in 1..Len(s) : DpkgVersionMatchAt(s, i).ok}
    IN  IF hits = {} THEN [ok |-> FALSE] ELSE DpkgVersionMatchAt(s, Min(hits))

\* _APT_FILE_SEARCH_RE, no MULTILINE: [^:]+ from the start, a colon, a space
AptFileSearchSearch(s) ==
    LET c == SpanNotIn(s, 1, {":"})
    IN  IF c > 1 /\ c + 1 <= Len(s) /\ s[c + 1] = " "
        THEN [ok |-> TRUE, g1 |-> Slice(s, 1, c - 1)]
        ELSE [ok |-> FALSE]

----------------------------------------------------------------------------
\* The host: what the calls of open(), shutil.which() and subprocess can answer.

\* number of top-level calls (whichprovides or _package_manager_bin) per process
MaxCalls == 2

BinaryNames == {"apk", "dpkg", "rpm", "apt", "apt-file"}

SearchDirs == {"/usr/bin"}

\* shutil.which(binaryname): None or an executable path
WhichResults(binaryname) == {None} \cup {<<d, binaryname>> : d \in SearchDirs}

ExitCodes == {0, 1, 2}

\* a child process: it could not be started (OSError), or it ran and exited
\* with returncode, having printed stdout (bytes that decode() accepts or not)
Proc(exc, returncode, stdout, decodable) ==
    [exc |-> exc, returncode |-> returncode, stdout |-> stdout, decodable |-> decodable]

VersionResults ==
    {Proc("OSError", 0, <<>>, TRUE)} \cup {Proc("none", c, <<>>, TRUE) : c \in ExitCodes}

QueryResults(outputs) ==
    {Proc("OSError", 0, <<>>, TRUE), Proc("none", 1, <<>>, TRUE), Proc("none", 0, <<>>, FALSE)}
    \cup {Proc("none", 0, o, TRUE) : o \in outputs}

FilePaths == {<<"/", "b">>}

\* /etc/os-release as open() and read() find it
OsReleaseFiles ==
    {[status |-> "OSError", text |-> <<>>],
     [status |-> "UnicodeDecodeError", text |-> <<>>]}
    \cup {[status |-> "ok", text |-> t] : t \in
           {<<"I", "D", "=", "\"", "a", "l", "\"">>,
            <<"N", "=", "x", "\n", "I", "D", "=", "d", "e", "\n">>,
            <<"I", "D", "=", "\"", "\"", "\n">>,
            <<"N", "=", "\"", "x", "\"", "\n", "i", "d", "=", "a", "l", "\n">>,
            <<>>}}

\* what apk info --who-owns can print for a path
ApkOutputs(path) ==
    {path \o IsOwnedBy \o <<"b", "-", "5", "-", "r">>,
     path \o IsOwnedBy \o <<"b", "-", "5", "-", "r", "\n">>,
     <<"W", "\n">> \o path \o IsOwnedBy \o <<"c", "-", "1">>,
     <<>>}

\* what dpkg -S can print for a path
DpkgSearchOutputs(path) ==
    {<<"b", ":", " ">> \o path \o <<"\n">>,
     <<"b", ",", "c", ":", " ">> \o path \o <<"\n">>,
     path \o <<"\n">>}

\* what dpkg -s and apt show can print for a package
StatusOutputs(name) ==
    {<<"P", ":", " ">> \o name \o <<"\n">> \o VersionLit \o <<"5", ".", "1", "\n", "A", ":", " ", "x", "\n">>,
     VersionLit \o <<"6">>,
     <<"P", ":", " ">> \o name \o <<"\n">> \o VersionLit \o <<"\n">>}

\* what rpm -qf --queryformat can print
RpmOutputs ==
    {<<"b", "a", " ", "4", ".", "4", " ", "4", ".", "e", " ", "x", "8">>,
     <<"c", " ", "4", ".", "1", " ", "r", "8", " ", "x", "\n">>,
     <<"b", " ", " ", "4", " ", "r">>,
     <<"b", " ", "4">>,
     <<"\n">>}

\* what apt-file search can print for a path
AptFileOutputs(path) ==
    {<<"b", ":", " ">> \o path \o <<"\n">>,
     <<"F", "\n", "c", ":", " ">> \o path \o <<"\n">>,
     <<"b", ":">> \o path}

----------------------------------------------------------------------------
VARIABLES
    bins,          \* _PACKAGE_MANAGER_BINS: binaryname -> None (no key) | False | path
    pc,            \* where the current call stands ("idle": no call in progress,
                   \* "returned": the call has ended and its result is at hand)
    filepath,      \* argument of the current call
    os_file,       \* /etc/os-release as the current call found it
    distro,        \* local of whichprovides
    package_name,  \* local of whichprovides
    outcome,       \* how the last call ended: "Provides", "None", or the exception raised
    ret,           \* the Provides record returned (when outcome = "Provides")
    events,        \* what the current call did, in order: <<kind, who>>
    stdout,        \* local of whichprovides: the decoded output of the last query
    check_output,  \* how the last check_output(...).decode() ended: "none" or the exception
    searched,      \* binaryname -> number of shutil.which() lookups so far
    spawned,       \* binaryname -> number of --version processes spawned so far
    calls,         \* number of top-level calls so far
    local_bins,    \* locals apk_bin, dpkg_bin, rpm_bin, apt_bin, apt_file_bin
    bin_ret,       \* what the last _package_manager_bin call returned
    bin_args,      \* the arguments of the last _package_manager_bin call
    check_call,    \* how the last subprocess.check_call([bin_which, "--version"]) ended
    purl_read,     \* the last read of the property purl: the record and the value
    host,          \* the machine: whether its answers stay the same, and the answers given
    seen,          \* filepath -> the results callers have had for it on this host
    restarts,      \* number of times the process has been started anew
    threads,       \* concurrent lookups: thread -> its position and locals in _package_manager_bin
    written        \* binaryname -> the values the threads have stored in the cache

vars == <<bins, pc, filepath, os_file, distro, package_name, stdout, check_output,
          outcome, ret, events, searched, spawned, calls, local_bins, bin_ret, bin_args,
          check_call, purl_read, host, seen, restarts, threads, written>>

\* _package_manager_bin has not been called
NoArgs == [binaryname |-> "", expect_returncodes |-> {}]

\* subprocess.check_call has not been reached
NotCalled == [exc |-> "notcalled", returncode |-> 0]

\* a machine on which lookups are made for the paths files, before it has been
\* asked anything.  When stable, it answers a question asked again as it did
\* before (same identity file, same binaries, same output of every process);
\* when not, each answer is free.
Host(stable, files) ==
    [stable |-> stable, files |-> files, os |-> {},
     which |-> [n \in BinaryNames |-> {}], version |-> [n \in BinaryNames |-> {}],
     query |-> {}]

\* what the host can answer now, having answered given (a set of at most one
\* answer) to the same question before
Answers(given, candidates) == IF host.stable /\ given # {} THEN given ELSE candidates

\* the answers the host has given to the query process who with argument arg
Given(who, arg) == {t[3] : t \in {u \in host.query : u[1] = who /\ u[2] = arg}}

\* the host after open("/etc/os-release") found file
AfterOpen(file) == IF host.stable THEN [host EXCEPT !.os = {file}] ELSE host

\* the host after one _package_manager_bin call with result r asked it for
\* binaryname (line 63) and for its --version process (line 68)
AfterLocate(r, binaryname, which, proc) ==
    IF host.stable
    THEN [host EXCEPT !.which[binaryname] = IF r.searched THEN {which} ELSE @,
                      !.version[binaryname] = IF r.spawned THEN {proc} ELSE @]
    ELSE host

\* the host after the query process who with argument arg ended as proc
AfterQuery(who, arg, proc) ==
    IF host.stable THEN [host EXCEPT !.query = @ \cup {<<who, arg, proc>>}] ELSE host

\* no other process, no other thread
Alone == UNCHANGED <<seen, restarts, threads, written>>

NoRecord == [package_type |-> <<>>, distro |-> None, package_name |-> <<>>, package_version |-> <<>>]

\* the dataclass Provides
Provides(package_type, d, name, version) ==
    [package_type |-> package_type, distro |-> d, package_name |-> name,
     package_version |-> version]

\* the literal that ends every purl (line 34)
DistroQualifier ==
    <<"?", "d", "i", "s", "t", "r", "o", "=",
      "a", "l", "m", "a", "l", "i", "n", "u", "x", "-", "8">>

\* Purl with the qualifier taken from the record instead of the fixed literal
Purl_QualifierFromDistro(self) ==
    <<"p", "k", "g", ":">> \o self.package_type \o <<"/">>
    \o (IF Truthy(self.distro) THEN self.distro \o <<"/">> ELSE <<>>)
    \o self.package_name \o <<"@">> \o self.package_version
    \o <<"?", "d", "i", "s", "t", "r", "o", "=">>
    \o (IF Truthy(self.distro) THEN self.distro ELSE <<>>)

\* the property Provides.purl
Purl(self) ==
    <<"p", "k", "g", ":">> \o self.package_type \o <<"/">>
    \o (IF Truthy(self.distro) THEN self.distro \o <<"/">> ELSE <<>>)
    \o self.package_name \o <<"@">> \o self.package_version
    \o DistroQualifier

NoFile == [status |-> "none", text |-> <<>>]

NoRead == [of |-> NoRecord, value |-> <<>>]

Init ==
    /\ bins = [n \in BinaryNames |-> None]
    /\ pc = "idle"
    /\ filepath = <<>>
    /\ os_file = NoFile
    /\ distro = None
    /\ package_name = <<>>
    /\ stdout = <<>>
    /\ check_output = "none"
    /\ outcome = "none"
    /\ ret = NoRecord
    /\ events = <<>>
    /\ searched = [n \in BinaryNames |-> 0]
    /\ spawned = [n \in BinaryNames |-> 0]
    /\ calls = 0
    /\ local_bins = [n \in BinaryNames |-> None]
    /\ bin_ret = None
    /\ bin_args = NoArgs
    /\ check_call = NotCalled
    /\ purl_read = NoRead
    /\ host = Host(FALSE, FilePaths)
    /\ seen = [f \in FilePaths |-> {}]
    /\ restarts = 0
    /\ threads = <<>>
    /\ written = [n \in BinaryNames |-> {}]

\* PackageManagerBin with the slip of testing `if has_bin:` only: a cached False
\* is taken for no entry and the binary is looked up again
PackageManagerBin_RetriesAbsent(cache, binaryname, expect_returncodes, which, proc) ==
    LET has_bin == cache[binaryname]
        args == [binaryname |-> binaryname, expect_returncodes |-> expect_returncodes]
        called == [exc |-> IF proc.exc = "OSError" THEN "OSError"
                           ELSE IF proc.returncode # 0 THEN "CalledProcessError"
                           ELSE "none",
                   returncode |-> proc.returncode]
        store(v, r, sp) == [ret |-> r, bins |-> [cache EXCEPT ![binaryname] = v],
                            exc |-> "none", searched |-> TRUE, spawned |-> sp,
                            check_call |-> IF sp THEN called ELSE NotCalled, args |-> args]
    IN  IF has_bin # None /\ has_bin # False
        THEN [ret |-> has_bin, bins |-> cache, exc |-> "none",
              searched |-> FALSE, spawned |-> FALSE, check_call |-> NotCalled,
                   args |-> args]
        ELSE IF which = None THEN store(False, None, FALSE)
        ELSE IF proc.exc = "OSError"
             THEN [ret |-> None, bins |-> cache, exc |-> "OSError",
                   searched |-> TRUE, spawned |-> TRUE, check_call |-> called,
                   args |-> args]
        ELSE IF proc.returncode = 0 THEN store(which, which, TRUE)
        ELSE IF expect_returncodes # {} /\ proc.returncode \in expect_returncodes
             THEN store(which, which, TRUE)
        ELSE store(False, None, TRUE)

\* _package_manager_bin(binaryname, expect_returncodes) on cache, when
\* shutil.which answers which and the --version process (if spawned) is proc
PackageManagerBin(cache, binaryname, expect_returncodes, which, proc) ==
    LET has_bin == cache[binaryname]
        args == [binaryname |-> binaryname, expect_returncodes |-> expect_returncodes]
        called == [exc |-> IF proc.exc = "OSError" THEN "OSError"
                           ELSE IF proc.returncode # 0 THEN "CalledProcessError"
                           ELSE "none",
                   returncode |-> proc.returncode]
        hit(v) == [ret |-> v, bins |-> cache, exc |-> "none",
                   searched |-> FALSE, spawned |-> FALSE, check_call |-> NotCalled,
                   args |-> args]
        store(v, r, sp) == [ret |-> r, bins |-> [cache EXCEPT ![binaryname] = v],
                            exc |-> "none", searched |-> TRUE, spawned |-> sp,
                            check_call |-> IF sp THEN called ELSE NotCalled, args |-> args]
    IN  IF has_bin = False THEN hit(None)
        ELSE IF has_bin # None THEN hit(has_bin)
        ELSE IF which = None THEN store(False, None, FALSE)
        ELSE IF proc.exc = "OSError"
             THEN [ret |-> None, bins |-> cache, exc |-> "OSError",
                   searched |-> TRUE, spawned |-> TRUE, check_call |-> called,
                   args |-> args]
        ELSE IF proc.returncode = 0 THEN store(which, which, TRUE)
        ELSE IF expect_returncodes # {} /\ proc.returncode \in expect_returncodes
             THEN store(which, which, TRUE)
        ELSE store(False, None, TRUE)

\* subprocess.check_output(...).decode(): the text, or the exception raised
CheckOutput(proc) ==
    IF proc.exc = "OSError" THEN [exc |-> "OSError", stdout |-> <<>>]
    ELSE IF proc.returncode # 0 THEN [exc |-> "CalledProcessError", stdout |-> <<>>]
    ELSE IF ~proc.decodable THEN [exc |-> "UnicodeDecodeError", stdout |-> <<>>]
    ELSE [exc |-> "none", stdout |-> proc.stdout]

----------------------------------------------------------------------------
\* How a call ends, and what one step of it leaves behind.

\* the call returns the record rec (lines 101, 130, 158, 191)
ReturnProvides(rec, evs) ==
    /\ pc' = "returned"
    /\ outcome' = "Provides"
    /\ ret' = rec
    /\ events' = evs

\* an exception leaves the call: nothing in the module catches it
Raise(exc, evs) ==
    /\ pc' = "returned"
    /\ outcome' = exc
    /\ ret' = NoRecord
    /\ events' = evs

\* the call goes on at position next
Goto(next, evs) ==
    /\ pc' = next
    /\ events' = evs
    /\ UNCHANGED <<outcome, ret>>

\* AfterMiss with the slip of giving up at the first probe that does not
\* match, instead of falling through to the next one
AfterMiss_GivesUp(probe) == "end"

\* where the call goes on when a probe is skipped or misses: the if-blocks of
\* lines 90, 111, 140 and 168 follow one another, then line 200
AfterMiss(probe) ==
    CASE probe = "apk" -> "dpkg"
      [] probe = "dpkg" -> "rpm"
      [] probe = "rpm" -> "apt"
      [] probe = "apt" -> "end"

\* a probe ran and gave no record: except CalledProcessError: pass, or no match
Miss(probe, evs) == Goto(AfterMiss(probe), Append(evs, <<"miss", probe>>))

\* the events of one _package_manager_bin call: the answer comes from the
\* cache, or from a search-path lookup and, if that finds a file, a --version
\* process
BinEvents(r, binaryname) ==
    (IF r.searched THEN <<(<<"which", binaryname>>)>> ELSE <<(<<"cached", binaryname>>)>>)
    \o (IF r.spawned THEN <<(<<"version", binaryname>>)>> ELSE <<>>)

\* a probe was skipped, missed or matched
Decision(kind, probe) == <<kind, probe>>

\* a package-manager query process was invoked
Query(who) == <<"query", who>>

\* BinEffects with the slip of storing False after every lookup, also when the
\* path is returned
BinEffects_StoresAbsent(r, binaryname) ==
    /\ bin_args' = r.args
    /\ bins' = (IF r.searched /\ r.exc = "none" THEN [r.bins EXCEPT ![binaryname] = False]
                ELSE r.bins)
    /\ bin_ret' = r.ret
    /\ check_call' = r.check_call
    /\ searched' = [searched EXCEPT ![binaryname] = @ + (IF r.searched THEN 1 ELSE 0)]
    /\ spawned' = [spawned EXCEPT ![binaryname] = @ + (IF r.spawned THEN 1 ELSE 0)]

\* the cache and the counters after one _package_manager_bin call
BinEffects(r, binaryname) ==
    /\ bin_args' = r.args
    /\ bins' = r.bins
    /\ bin_ret' = r.ret
    /\ check_call' = r.check_call
    /\ searched' = [searched EXCEPT ![binaryname] = @ + (IF r.searched THEN 1 ELSE 0)]
    /\ spawned' = [spawned EXCEPT ![binaryname] = @ + (IF r.spawned THEN 1 ELSE 0)]

\* `if <so far> and (x_bin := _package_manager_bin(binaryname, ...))`: the
\* condition of one probe, or one conjunct of it.  sofar is the value of the
\* conjuncts before it; and short-circuits.
Prerequisite(probe, sofar, binaryname, expect_returncodes, run) ==
    /\ UNCHANGED <<filepath, os_file, distro, package_name, stdout, check_output,
                   calls, purl_read>>
    /\ Alone
    /\ IF ~sofar
       THEN /\ Goto(AfterMiss(probe), Append(events, Decision("skip", probe)))
            /\ UNCHANGED <<bins, bin_ret, bin_args, check_call, searched, spawned,
                           local_bins, host>>
       ELSE \E which \in Answers(host.which[binaryname], WhichResults(binaryname)),
               proc \in Answers(host.version[binaryname], VersionResults) :
              LET r == PackageManagerBin(bins, binaryname, expect_returncodes, which, proc)
                  evs == events \o BinEvents(r, binaryname)
              IN  /\ BinEffects(r, binaryname)
                  /\ host' = AfterLocate(r, binaryname, which, proc)
                  /\ IF r.exc # "none"
                     THEN Raise(r.exc, evs) /\ UNCHANGED local_bins
                     ELSE /\ local_bins' = [local_bins EXCEPT ![binaryname] = r.ret]
                          /\ IF Truthy(r.ret) THEN Goto(run, evs)
                             ELSE Goto(AfterMiss(probe), Append(evs, Decision("skip", probe)))

\* a query step that changes only the position, the locals and the result
QueryFrame ==
    /\ UNCHANGED <<bins, bin_ret, bin_args, check_call, searched, spawned, local_bins,
                   filepath, os_file, distro, calls, purl_read>>
    /\ Alone

\* stdout = subprocess.check_output(...).decode(): assigned only when no
\* exception is raised
AssignStdout(out) ==
    /\ check_output' = out.exc
    /\ stdout' = (IF out.exc = "none" THEN out.stdout ELSE stdout)

----------------------------------------------------------------------------
\* whichprovides(filepath), statement by statement.

\* line 87: distro = _os_release().get("ID", None)
Call ==
    /\ pc = "idle"
    /\ calls < MaxCalls
    /\ calls' = calls + 1
    /\ Alone
    /\ \E path \in host.files, file \in Answers(host.os, OsReleaseFiles) :
         /\ filepath' = path
         /\ os_file' = file
         /\ host' = AfterOpen(file)
         /\ bin_args' = NoArgs
         /\ check_call' = NotCalled
         /\ package_name' = <<>>
         /\ stdout' = <<>>
         /\ check_output' = "none"
         /\ local_bins' = [n \in BinaryNames |-> None]
         /\ bin_ret' = None
         /\ UNCHANGED <<bins, searched, spawned, purl_read>>
         /\ IF file.status = "UnicodeDecodeError"
            THEN Raise("UnicodeDecodeError", <<>>) /\ distro' = None
            ELSE /\ distro' = DictGet(OsRelease(file), <<"I", "D">>)
                 /\ pc' = "apk"
                 /\ outcome' = "running"
                 /\ ret' = NoRecord
                 /\ events' = <<>>

\* line 90
ApkPrerequisite ==
    /\ pc = "apk"
    /\ Prerequisite("apk", Truthy(distro), "apk", {}, "apk_info")

\* lines 91-108: apk info --who-owns filepath
ApkInfo ==
    /\ pc = "apk_info"
    /\ QueryFrame
    /\ \E proc \in Answers(Given("apk info", filepath), QueryResults(ApkOutputs(filepath))) :
         LET out == CheckOutput(proc)
             match == ApkWhoOwnsSearch(out.stdout)
             evs == Append(events, Query("apk info"))
         IN  /\ AssignStdout(out)
             /\ host' = AfterQuery("apk info", filepath, proc)
             /\ IF out.exc = "CalledProcessError"
                THEN Miss("apk", evs) /\ UNCHANGED package_name
                ELSE IF out.exc # "none" THEN Raise(out.exc, evs) /\ UNCHANGED package_name
                ELSE IF match.ok
                THEN /\ package_name' = match.g1
                     /\ ReturnProvides(
                          Provides(<<"a", "p", "k">>, distro, match.g1, match.g2),
                          Append(evs, Decision("match", "apk")))
                ELSE Miss("apk", evs) /\ UNCHANGED package_name

\* DpkgPrerequisite with the slip of not waiting for the apk probe
DpkgPrerequisite_BeforeApk ==
    /\ pc \in {"apk", "dpkg"}
    /\ Prerequisite("dpkg", Truthy(distro), "dpkg", {}, "dpkg_S")

\* line 111
DpkgPrerequisite ==
    /\ pc = "dpkg"
    /\ Prerequisite("dpkg", Truthy(distro), "dpkg", {}, "dpkg_S")

\* lines 112-119: dpkg -S filepath
DpkgSearch ==
    /\ pc = "dpkg_S"
    /\ QueryFrame
    /\ \E proc \in Answers(Given("dpkg -S", filepath), QueryResults(DpkgSearchOutputs(filepath))) :
         LET out == CheckOutput(proc)
             match == DpkgSearchSearch(out.stdout)
             evs == Append(events, Query("dpkg -S"))
         IN  /\ AssignStdout(out)
             /\ host' = AfterQuery("dpkg -S", filepath, proc)
             /\ IF out.exc = "CalledProcessError"
                THEN Miss("dpkg", evs) /\ UNCHANGED package_name
                ELSE IF out.exc # "none" THEN Raise(out.exc, evs) /\ UNCHANGED package_name
                ELSE IF match.ok THEN Goto("dpkg_s", evs) /\ package_name' = match.g1
                ELSE Miss("dpkg", evs) /\ UNCHANGED package_name

\* DpkgStatus with the slip of returning a record without version when the
\* status text has no Version line
DpkgStatus_Unversioned ==
    /\ pc = "dpkg_s"
    /\ QueryFrame
    /\ UNCHANGED package_name
    /\ \E proc \in Answers(Given("dpkg -s", package_name), QueryResults(StatusOutputs(package_name))) :
         LET out == CheckOutput(proc)
             match == DpkgVersionSearch(out.stdout)
             evs == Append(events, Query("dpkg -s"))
         IN  /\ AssignStdout(out)
             /\ host' = AfterQuery("dpkg -s", package_name, proc)
             /\ IF out.exc = "CalledProcessError" THEN Miss("dpkg", evs)
                ELSE IF out.exc # "none" THEN Raise(out.exc, evs)
                ELSE ReturnProvides(
                       Provides(<<"d", "e", "b">>, distro, package_name,
                                IF match.ok THEN match.g1 ELSE <<>>),
                       Append(evs, Decision("match", "dpkg")))

\* lines 120-137: dpkg -s package_name
DpkgStatus ==
    /\ pc = "dpkg_s"
    /\ QueryFrame
    /\ UNCHANGED package_name
    /\ \E proc \in Answers(Given("dpkg -s", package_name), QueryResults(StatusOutputs(package_name))) :
         LET out == CheckOutput(proc)
             match == DpkgVersionSearch(out.stdout)
             evs == Append(events, Query("dpkg -s"))
         IN  /\ AssignStdout(out)
             /\ host' = AfterQuery("dpkg -s", package_name, proc)
             /\ IF out.exc = "CalledProcessError" THEN Miss("dpkg", evs)
                ELSE IF out.exc # "none" THEN Raise(out.exc, evs)
                ELSE IF match.ok
                THEN ReturnProvides(Provides(<<"d", "e", "b">>, distro, package_name, match.g1),
                                    Append(evs, Decision("match", "dpkg")))
                ELSE Miss("dpkg", evs)

\* line 140
RpmPrerequisite ==
    /\ pc = "rpm"
    /\ Prerequisite("rpm", Truthy(distro), "rpm", {}, "rpm_qf")

\* RpmFields with the slip of a maxsplit of 2: release and architecture stay
\* in one field
RpmFields_Maxsplit2(text) == SplitSpace(Strip(text), 2)

\* lines 155-157: stdout.strip().split(" ", 4)
RpmFields(text) == SplitSpace(Strip(text), 4)

\* lines 141-165: rpm -qf --queryformat ... filepath, then strip and split
RpmQuery ==
    /\ pc = "rpm_qf"
    /\ QueryFrame
    /\ \E proc \in Answers(Given("rpm -qf", filepath), QueryResults(RpmOutputs)) :
         LET out == CheckOutput(proc)
             parts == RpmFields(out.stdout)
             evs == Append(events, Query("rpm -qf"))
         IN  /\ AssignStdout(out)
             /\ host' = AfterQuery("rpm -qf", filepath, proc)
             /\ IF out.exc = "CalledProcessError"
                THEN Miss("rpm", evs) /\ UNCHANGED package_name
                ELSE IF out.exc # "none" THEN Raise(out.exc, evs) /\ UNCHANGED package_name
                ELSE IF Len(parts) < 3 THEN Raise("ValueError", evs) /\ UNCHANGED package_name
                ELSE /\ package_name' = parts[1]
                     /\ ReturnProvides(
                          Provides(<<"r", "p", "m">>, distro, parts[1], parts[2] \o <<"-">> \o parts[3]),
                          Append(evs, Decision("match", "rpm")))

\* lines 169-170: distro and (apt_bin := _package_manager_bin("apt"))
AptPrerequisite ==
    /\ pc = "apt"
    /\ Prerequisite("apt", Truthy(distro), "apt", {}, "apt_file")

\* AptFilePrerequisite with the slip of leaving expect_returncodes out
AptFilePrerequisite_NoneAccepted ==
    /\ pc = "apt_file"
    /\ Prerequisite("apt", TRUE, "apt-file", {}, "apt_file_search")

\* line 171: and (apt_file_bin := _package_manager_bin("apt-file", expect_returncodes={2}))
AptFilePrerequisite ==
    /\ pc = "apt_file"
    /\ Prerequisite("apt", TRUE, "apt-file", {2}, "apt_file_search")

\* lines 173-183: apt-file search filepath
AptFileSearch ==
    /\ pc = "apt_file_search"
    /\ QueryFrame
    /\ \E proc \in Answers(Given("apt-file search", filepath), QueryResults(AptFileOutputs(filepath))) :
         LET out == CheckOutput(proc)
             match == AptFileSearchSearch(out.stdout)
             evs == Append(events, Query("apt-file search"))
         IN  /\ AssignStdout(out)
             /\ host' = AfterQuery("apt-file search", filepath, proc)
             /\ IF out.exc = "CalledProcessError"
                THEN Miss("apt", evs) /\ UNCHANGED package_name
                ELSE IF out.exc # "none" THEN Raise(out.exc, evs) /\ UNCHANGED package_name
                ELSE IF match.ok THEN Goto("apt_show", evs) /\ package_name' = match.g1
                ELSE Miss("apt", evs) /\ UNCHANGED package_name

\* lines 184-198: apt show package_name
AptShow ==
    /\ pc = "apt_show"
    /\ QueryFrame
    /\ UNCHANGED package_name
    /\ \E proc \in Answers(Given("apt show", package_name), QueryResults(StatusOutputs(package_name))) :
         LET out == CheckOutput(proc)
             match == DpkgVersionSearch(out.stdout)
             evs == Append(events, Query("apt show"))
         IN  /\ AssignStdout(out)
             /\ host' = AfterQuery("apt show", package_name, proc)
             /\ IF out.exc = "CalledProcessError" THEN Miss("apt", evs)
                ELSE IF out.exc # "none" THEN Raise(out.exc, evs)
                ELSE IF match.ok
                THEN ReturnProvides(Provides(<<"d", "e", "b">>, distro, package_name, match.g1),
                                    Append(evs, Decision("match", "apt")))
                ELSE Miss("apt", evs)

\* line 200: return None
ReturnNone ==
    /\ pc = "end"
    /\ pc' = "returned"
    /\ outcome' = "None"
    /\ ret' = NoRecord
    /\ UNCHANGED <<bins, bin_ret, bin_args, check_call, searched, spawned, local_bins, filepath,
                   os_file, distro, package_name, stdout, check_output, events, calls,
                   purl_read, host>>
    /\ Alone

\* _package_manager_bin called on its own, outside whichprovides
Locate ==
    /\ pc = "idle"
    /\ calls < MaxCalls
    /\ calls' = calls + 1
    /\ Alone
    /\ \E binaryname \in BinaryNames, expect_returncodes \in {{}, {2}} :
         \E which \in Answers(host.which[binaryname], WhichResults(binaryname)),
            proc \in Answers(host.version[binaryname], VersionResults) :
           LET r == PackageManagerBin(bins, binaryname, expect_returncodes, which, proc)
           IN  /\ BinEffects(r, binaryname)
               /\ host' = AfterLocate(r, binaryname, which, proc)
               /\ events' = BinEvents(r, binaryname)
               /\ outcome' = (IF r.exc # "none" THEN r.exc ELSE "located")
    /\ ret' = NoRecord
    /\ filepath' = <<>>
    /\ os_file' = NoFile
    /\ distro' = None
    /\ package_name' = <<>>
    /\ stdout' = <<>>
    /\ check_output' = "none"
    /\ local_bins' = [n \in BinaryNames |-> None]
    /\ pc' = "returned"
    /\ UNCHANGED purl_read

\* the caller has the result; the frame of the call and its locals are gone
Discard ==
    /\ pc = "returned"
    /\ pc' = "idle"
    /\ filepath' = <<>>
    /\ os_file' = NoFile
    /\ distro' = None
    /\ package_name' = <<>>
    /\ stdout' = <<>>
    /\ check_output' = "none"
    /\ outcome' = "none"
    /\ ret' = NoRecord
    /\ events' = <<>>
    /\ local_bins' = [n \in BinaryNames |-> None]
    /\ bin_ret' = None
    /\ bin_args' = NoArgs
    /\ check_call' = NotCalled
    /\ UNCHANGED <<bins, searched, spawned, calls, purl_read, host>>
    /\ Alone

Next ==
    \/ Call
    \/ ApkPrerequisite
    \/ ApkInfo
    \/ DpkgPrerequisite
    \/ DpkgSearch
    \/ DpkgStatus
    \/ RpmPrerequisite
    \/ RpmQuery
    \/ AptPrerequisite
    \/ AptFilePrerequisite
    \/ AptFileSearch
    \/ AptShow
    \/ ReturnNone
    \/ Locate
    \/ Discard

Spec == Init /\ [][Next]_vars

----------------------------------------------------------------------------
\* The record on its own: a caller builds a Provides, may assign its fields
\* (the dataclass is not frozen) and reads purl.

RecordTypes == {<<"a", "p", "k">>, <<"d", "e", "b">>, <<"r", "p", "m">>}

RecordDistros == {None, <<>>, <<"a", "l">>, <<"d", "e">>}

RecordNames == {<<"b">>, <<"b", ",", "c">>}

RecordVersions == {<<"5", ".", "1">>, <<"4", "-", "r">>}

\* Provides(package_type, distro, package_name, package_version), lines 23-28
PurlInit ==
    /\ bins = [n \in BinaryNames |-> None]
    /\ pc = "idle"
    /\ filepath = <<>>
    /\ os_file = NoFile
    /\ distro = None
    /\ package_name = <<>>
    /\ stdout = <<>>
    /\ check_output = "none"
    /\ outcome = "none"
    /\ ret \in {Provides(t, d, n, v) : t \in RecordTypes, d \in RecordDistros,
                                        n \in RecordNames, v \in RecordVersions}
    /\ events = <<>>
    /\ searched = [n \in BinaryNames |-> 0]
    /\ spawned = [n \in BinaryNames |-> 0]
    /\ calls = 0
    /\ local_bins = [n \in BinaryNames |-> None]
    /\ bin_ret = None
    /\ bin_args = NoArgs
    /\ check_call = NotCalled
    /\ purl_read = NoRead
    /\ host = Host(FALSE, FilePaths)
    /\ seen = [f \in FilePaths |-> {}]
    /\ restarts = 0
    /\ threads = <<>>
    /\ written = [n \in BinaryNames |-> {}]

RecordFrame == UNCHANGED <<bins, pc, filepath, os_file, distro, package_name, stdout,
                           check_output, outcome, events, searched, spawned, calls,
                           local_bins, bin_ret, bin_args, check_call, host, seen, restarts,
                           threads, written>>

\* lines 30-35: the property is computed from the fields at each read
ReadPurl ==
    /\ purl_read' = [of |-> ret, value |-> Purl(ret)]
    /\ UNCHANGED ret
    /\ RecordFrame

\* assignment to one field of the record
SetField ==
    /\ \/ \E t \in RecordTypes : ret' = [ret EXCEPT !.package_type = t]
       \/ \E d \in RecordDistros : ret' = [ret EXCEPT !.distro = d]
       \/ \E n \in RecordNames : ret' = [ret EXCEPT !.package_name = n]
       \/ \E v \in RecordVersions : ret' = [ret EXCEPT !.package_version = v]
    /\ UNCHANGED purl_read
    /\ RecordFrame

PurlNext == ReadPurl \/ SetField

PurlSpec == PurlInit /\ [][PurlNext]_vars


----------------------------------------------------------------------------
\* Several lookups at once: each thread runs _package_manager_bin on the one
\* dict _PACKAGE_MANAGER_BINS of the process, on a host that does not change.
\* A step is one access to the dict or one call that leaves the interpreter
\* (shutil.which, subprocess.check_call); threads interleave between steps.

Threads == {"t1", "t2"}

\* ExpectReturncodes with the slip of a call site that leaves the accepted code
\* out: only the first call made passes it
ExpectReturncodes_OneSiteOmits(binaryname) ==
    IF binaryname = "apt-file" /\ calls = 0 THEN {2} ELSE {}

\* the expect_returncodes of the call sites of lines 90, 111, 140, 170, 171
ExpectReturncodes(binaryname) == IF binaryname = "apt-file" THEN {2} ELSE {}

\* a thread outside _package_manager_bin
Outside ==
    [pc |-> "outside", binaryname |-> "", expect_returncodes |-> {}, has_bin |-> None,
     bin_which |-> None, returncode |-> 0, ret |-> None, exc |-> "none"]

ConcInit ==
    /\ bins = [n \in BinaryNames |-> None]
    /\ pc = "idle"
    /\ filepath = <<>>
    /\ os_file = NoFile
    /\ distro = None
    /\ package_name = <<>>
    /\ stdout = <<>>
    /\ check_output = "none"
    /\ outcome = "none"
    /\ ret = NoRecord
    /\ events = <<>>
    /\ searched = [n \in BinaryNames |-> 0]
    /\ spawned = [n \in BinaryNames |-> 0]
    /\ calls = 0
    /\ local_bins = [n \in BinaryNames |-> None]
    /\ bin_ret = None
    /\ bin_args = NoArgs
    /\ check_call = NotCalled
    /\ purl_read = NoRead
    /\ host = Host(TRUE, FilePaths)
    /\ seen = [f \in FilePaths |-> {}]
    /\ restarts = 0
    /\ threads = [t \in Threads |-> Outside]
    /\ written = [n \in BinaryNames |-> {}]

\* what a step of a thread inside _package_manager_bin leaves alone
ThreadFrame ==
    UNCHANGED <<pc, filepath, os_file, distro, package_name, stdout, check_output,
                outcome, ret, events, local_bins, bin_ret, bin_args, check_call,
                purl_read, seen, restarts>>

\* thread t goes on at position next with its locals changed as given
At(t, next, locals) == threads' = [threads EXCEPT ![t] = [locals EXCEPT !.pc = next]]

\* _PACKAGE_MANAGER_BINS[binaryname] = value, by thread t
Store(t, value, result) ==
    /\ bins' = [bins EXCEPT ![threads[t].binaryname] = value]
    /\ written' = [written EXCEPT ![threads[t].binaryname] = @ \cup {value}]
    /\ At(t, "return", [threads[t] EXCEPT !.ret = result])
    /\ UNCHANGED <<searched, spawned, calls, host>>
    /\ ThreadFrame

\* lines 53-55: the call, with the arguments of one of the call sites
Enter(t) ==
    /\ threads[t].pc = "outside"
    /\ calls < MaxCalls
    /\ calls' = calls + 1
    /\ \E binaryname \in BinaryNames :
         At(t, "get", [Outside EXCEPT !.binaryname = binaryname,
                                      !.expect_returncodes = ExpectReturncodes(binaryname)])
    /\ UNCHANGED <<bins, written, searched, spawned, host>>
    /\ ThreadFrame

\* lines 57-62: has_bin = _PACKAGE_MANAGER_BINS.get(binaryname) and the two
\* early returns
Get(t) ==
    /\ threads[t].pc = "get"
    /\ LET has_bin == bins[threads[t].binaryname]
           locals == [threads[t] EXCEPT !.has_bin = has_bin]
       IN  IF has_bin = False THEN At(t, "return", [locals EXCEPT !.ret = None])
           ELSE IF has_bin # None THEN At(t, "return", [locals EXCEPT !.ret = has_bin])
           ELSE At(t, "which", locals)
    /\ UNCHANGED <<bins, written, searched, spawned, calls, host>>
    /\ ThreadFrame

\* lines 63-64: bin_which = shutil.which(binaryname)
Which(t) ==
    /\ threads[t].pc = "which"
    /\ LET n == threads[t].binaryname
       IN  /\ \E which \in Answers(host.which[n], WhichResults(n)) :
                /\ host' = [host EXCEPT !.which[n] = {which}]
                /\ At(t, IF which = None THEN "store_not_found" ELSE "check_call",
                      [threads[t] EXCEPT !.bin_which = which])
           /\ searched' = [searched EXCEPT ![n] = @ + 1]
    /\ UNCHANGED <<bins, written, spawned, calls>>
    /\ ThreadFrame

\* lines 65-66: cache the not-found result
StoreNotFound(t) ==
    /\ threads[t].pc = "store_not_found"
    /\ Store(t, False, None)

\* lines 67-72 and 75-78: subprocess.check_call([bin_which, "--version"], ...)
CheckCall(t) ==
    /\ threads[t].pc = "check_call"
    /\ LET n == threads[t].binaryname
       IN  /\ \E proc \in Answers(host.version[n], VersionResults) :
                /\ host' = [host EXCEPT !.version[n] = {proc}]
                /\ IF proc.exc = "OSError"
                   THEN At(t, "return", [threads[t] EXCEPT !.exc = "OSError"])
                   ELSE At(t, IF proc.returncode = 0 THEN "store_usable"
                              ELSE IF /\ threads[t].expect_returncodes # {}
                                      /\ proc.returncode \in threads[t].expect_returncodes
                                   THEN "store_accepted"
                                   ELSE "store_absent",
                           [threads[t] EXCEPT !.returncode = proc.returncode])
           /\ spawned' = [spawned EXCEPT ![n] = @ + 1]
    /\ UNCHANGED <<bins, written, searched, calls>>
    /\ ThreadFrame

\* lines 73-74
StoreUsable(t) ==
    /\ threads[t].pc = "store_usable"
    /\ Store(t, threads[t].bin_which, threads[t].bin_which)

\* lines 79-80
StoreAccepted(t) ==
    /\ threads[t].pc = "store_accepted"
    /\ Store(t, threads[t].bin_which, threads[t].bin_which)

\* lines 81-82
StoreAbsent(t) ==
    /\ threads[t].pc = "store_absent"
    /\ Store(t, False, None)

\* the caller has the value (or the exception); the locals are gone
Leave(t) ==
    /\ threads[t].pc = "return"
    /\ At(t, "outside", Outside)
    /\ UNCHANGED <<bins, written, searched, spawned, calls, host>>
    /\ ThreadFrame

ConcNext ==
    \E t \in Threads :
      \/ Enter(t)
      \/ Get(t)
      \/ Which(t)
      \/ StoreNotFound(t)
      \/ CheckCall(t)
      \/ StoreUsable(t)
      \/ StoreAccepted(t)
      \/ StoreAbsent(t)
      \/ Leave(t)

ConcSpec == ConcInit /\ [][ConcNext]_vars

----------------------------------------------------------------------------
\* One host that does not change, and processes started on it one after the
\* other: each process begins with the empty cache of line 15 and makes
\* whichprovides calls; the caller keeps the results.

\* number of times a new process is started after the first
MaxRestarts == 1

HostFilePaths == {<<"/", "b">>, <<"/", "c">>}

\* the hosts looked at: on each, the binaries of one probe may be on the search
\* path (found or not, working or not, as the host turns out to be) and the
\* other package managers are not installed
Installable == {{"apk"}, {"dpkg"}, {"rpm"}, {"apt", "apt-file"}}

\* the host of HostInit on which only the binaries of installable can be found
HostWith(installable) ==
    [Host(TRUE, HostFilePaths) EXCEPT
       !.which = [n \in BinaryNames |-> IF n \in installable THEN {} ELSE {None}]]

HostInit ==
    /\ bins = [n \in BinaryNames |-> None]
    /\ pc = "idle"
    /\ filepath = <<>>
    /\ os_file = NoFile
    /\ distro = None
    /\ package_name = <<>>
    /\ stdout = <<>>
    /\ check_output = "none"
    /\ outcome = "none"
    /\ ret = NoRecord
    /\ events = <<>>
    /\ searched = [n \in BinaryNames |-> 0]
    /\ spawned = [n \in BinaryNames |-> 0]
    /\ calls = 0
    /\ local_bins = [n \in BinaryNames |-> None]
    /\ bin_ret = None
    /\ bin_args = NoArgs
    /\ check_call = NotCalled
    /\ purl_read = NoRead
    /\ host \in {HostWith(installable) : installable \in Installable}
    /\ seen = [f \in HostFilePaths |-> {}]
    /\ restarts = 0
    /\ threads = <<>>
    /\ written = [n \in BinaryNames |-> {}]

\* the caller notes how the call for filepath ended, whether it was the first
\* call of its process (the one that found the cache empty) and which names
\* it had from the cache; the frame of the call and its locals are gone
Observe ==
    /\ pc = "returned"
    /\ seen' = [seen EXCEPT ![filepath] =
                  @ \cup {[first |-> calls = 1,
                           cached |-> {n \in BinaryNames :
                                         \E i \in DOMAIN events : events[i] = <<"cached", n>>},
                           outcome |-> outcome,
                           ret |-> ret]}]
    /\ pc' = "idle"
    /\ filepath' = <<>>
    /\ os_file' = NoFile
    /\ distro' = None
    /\ package_name' = <<>>
    /\ stdout' = <<>>
    /\ check_output' = "none"
    /\ outcome' = "none"
    /\ ret' = NoRecord
    /\ events' = <<>>
    /\ local_bins' = [n \in BinaryNames |-> None]
    /\ bin_ret' = None
    /\ bin_args' = NoArgs
    /\ check_call' = NotCalled
    /\ UNCHANGED <<bins, searched, spawned, calls, purl_read, host, restarts, threads,
                   written>>

\* the process ends and a new one starts on the same host: line 15 runs again
Restart ==
    /\ pc = "idle"
    /\ restarts < MaxRestarts
    /\ restarts' = restarts + 1
    /\ bins' = [n \in BinaryNames |-> None]
    /\ searched' = [n \in BinaryNames |-> 0]
    /\ spawned' = [n \in BinaryNames |-> 0]
    /\ calls' = 0
    /\ UNCHANGED <<pc, filepath, os_file, distro, package_name, stdout, check_output,
                   outcome, ret, events, local_bins, bin_ret, bin_args, check_call,
                   purl_read, host, seen, threads, written>>

HostNext ==
    \/ Call
    \/ ApkPrerequisite
    \/ ApkInfo
    \/ DpkgPrerequisite
    \/ DpkgSearch
    \/ DpkgStatus
    \/ RpmPrerequisite
    \/ RpmQuery
    \/ AptPrerequisite
    \/ AptFilePrerequisite
    \/ AptFileSearch
    \/ AptShow
    \/ ReturnNone
    \/ Observe
    \/ Restart

HostSpec == HostInit /\ [][HostNext]_vars

----------------------------------------------------------------------------
\* Properties.

ProbeOrder == <<"apk", "dpkg", "rpm", "apt">>

ProbeIndex(probe) == CHOOSE k \in 1..Len(ProbeOrder) : ProbeOrder[k] = probe

\* the probe a query process belongs to
ProbeOfQuery(who) ==
    CASE who = "apk info" -> "apk"
      [] who \in {"dpkg -S", "dpkg -s"} -> "dpkg"
      [] who = "rpm -qf" -> "rpm"
      [] who \in {"apt-file search", "apt show"} -> "apt"

PackageTypeOf(probe) ==
    CASE probe = "apk" -> <<"a", "p", "k">>
      [] probe \in {"dpkg", "apt"} -> <<"d", "e", "b">>
      [] probe = "rpm" -> <<"r", "p", "m">>

EventSet == {events[i] : i \in DOMAIN events}

QueryIndexes == {i \in DOMAIN events : events[i][1] = "query"}

\* the last query process of the call so far (0 when there is none)
LastQuery == IF QueryIndexes = {} THEN 0
             ELSE CHOOSE i \in QueryIndexes : \A j \in QueryIndexes : j <= i

LastQueryIs(who) == LastQuery > 0 /\ events[LastQuery][2] = who

\* C1: within a call the probes are evaluated in the order apk, dpkg, rpm, apt:
\* a query process of a probe is invoked only after every earlier probe has
\* been skipped or has missed and no probe has matched; a match is the last
\* thing the call does, and the record returned is the one of the probe that
\* matched.
C1_ProbeOrder ==
    /\ \A i \in DOMAIN events :
         /\ events[i][1] = "query" =>
              /\ \A k \in 1..(ProbeIndex(ProbeOfQuery(events[i][2])) - 1) :
                   \E j \in 1..(i - 1) :
                     events[j] \in {<<"skip", ProbeOrder[k]>>, <<"miss", ProbeOrder[k]>>}
              /\ \A j \in 1..(i - 1) : events[j][1] # "match"
         /\ events[i][1] = "match" =>
              /\ i = Len(events)
              /\ pc = "returned"
              /\ outcome = "Provides"
              /\ ret.package_type = PackageTypeOf(events[i][2])
              /\ \A k \in 1..(ProbeIndex(events[i][2]) - 1) :
                   \E j \in 1..(i - 1) :
                     events[j] \in {<<"skip", ProbeOrder[k]>>, <<"miss", ProbeOrder[k]>>}
    /\ outcome = "Provides" => events # <<>> /\ events[Len(events)][1] = "match"

\* the rpm probe matched after apk and dpkg had run and missed
C1_Witness ==
    /\ pc = "returned"
    /\ outcome = "Provides"
    /\ ret.package_type = <<"r", "p", "m">>
    /\ <<"miss", "apk">> \in EventSet
    /\ <<"miss", "dpkg">> \in EventSet

\* C2: whatever the host answers (identity file present or not, binaries found
\* or not, processes succeeding, exiting non-zero, failing to start, printing
\* anything), a call of whichprovides ends with a Provides record or with None,
\* never with an exception.
C2_ProvidesOrNone ==
    (pc = "returned" /\ os_file.status \in {"ok", "OSError"})
        => outcome \in {"Provides", "None"}

\* the positions at which a line of the text begins with ID=
IdLines(text) ==
    {i \in 1..Len(text) : AtLineStart(text, i) /\ LitAt(<<"I", "D", "=">>, text, i)}

\* the identity file cannot be opened, or has no ID line, or only empty ones
IdAbsentOrEmpty(file) ==
    \/ file.status = "OSError"
    \/ /\ file.status = "ok"
       /\ \A i \in IdLines(file.text) :
            \/ AtLineEnd(file.text, i + 3)
            \/ LitAt(<<"\"", "\"">>, file.text, i + 3) /\ AtLineEnd(file.text, i + 5)

C3_NothingDone ==
    IdAbsentOrEmpty(os_file) =>
        /\ \A i \in DOMAIN events : events[i][1] \notin {"which", "version", "query"}
        /\ pc = "returned" => outcome = "None"

C3_CacheKept ==
    IdAbsentOrEmpty(os_file) =>
        /\ bins' = bins
        /\ searched' = searched
        /\ spawned' = spawned

\* C3: when the identity file is absent or unreadable, or gives no ID or an
\* empty ID, the call returns None, searches for no binary, starts no process
\* and leaves the cache as it was, whatever the cache holds.
C3_NoDistroNoProbe == [](C3_NothingDone) /\ [][C3_CacheKept]_vars

\* a call on a host without a distro id returned None although the cache
\* already knows a usable package manager
C3_Witness ==
    /\ pc = "returned"
    /\ IdAbsentOrEmpty(os_file)
    /\ outcome = "None"
    /\ calls = 2
    /\ \E n \in BinaryNames : bins[n] \notin {None, False}

\* C4: the cache is a strict memoization, so over any sequence of calls each
\* binary name is searched for at most once and its --version check is spawned
\* at most once.
C4_AtMostOnce ==
    \A n \in BinaryNames : searched[n] <= 1 /\ spawned[n] <= 1

\* where the call stands right after a probe was skipped or missed
NextProbeAt(probe) ==
    IF ProbeIndex(probe) = Len(ProbeOrder) THEN "end"
    ELSE ProbeOrder[ProbeIndex(probe) + 1]

\* C5: a query that exits non-zero is a miss, not an error: the miss of its
\* probe is recorded and the call goes on with the next probe in order; and
\* when apk has missed and dpkg then finds the name and the version, the call
\* returns the dpkg record.
C5_NonZeroExitIsMiss ==
    /\ (LastQuery > 0 /\ check_output = "CalledProcessError") =>
         LET probe == ProbeOfQuery(events[LastQuery][2])
         IN  /\ LastQuery < Len(events)
             /\ events[LastQuery + 1] = <<"miss", probe>>
             /\ LastQuery + 1 = Len(events) =>
                  \/ pc = NextProbeAt(probe) /\ outcome = "running"
                  \/ probe = "apt" /\ pc = "returned" /\ outcome = "None"
             /\ outcome # "CalledProcessError"
    /\ (/\ <<"miss", "apk">> \in EventSet
        /\ LastQueryIs("dpkg -s")
        /\ check_output = "none"
        /\ DpkgVersionSearch(stdout).ok) =>
         /\ pc = "returned"
         /\ outcome = "Provides"
         /\ ret = Provides(<<"d", "e", "b">>, distro, package_name,
                           DpkgVersionSearch(stdout).g1)

\* apk exited non-zero for the path and the call is about to try dpkg
C5_Witness ==
    /\ LastQueryIs("apk info")
    /\ check_output = "CalledProcessError"
    /\ pc = "dpkg"

\* C6: every record returned has a package type among apk, deb, rpm, the
\* non-empty ID of the identity file read in that call as distro, a non-empty
\* package name and a non-empty package version.
C6_NoPartialRecord ==
    outcome = "Provides" =>
        /\ ret.package_type \in {<<"a", "p", "k">>, <<"d", "e", "b">>, <<"r", "p", "m">>}
        /\ ret.distro = DictGet(OsRelease(os_file), <<"I", "D">>)
        /\ ret.distro \notin {None, <<>>}
        /\ ret.package_name # <<>>
        /\ ret.package_version # <<>>

\* the apt probe returned a record
C6_Witness ==
    /\ outcome = "Provides"
    /\ <<"match", "apt">> \in EventSet

\* the identity file has exactly one ID line, and it reads ID="d"
QuotedId(text, d) ==
    /\ d # <<>>
    /\ \A k \in DOMAIN d : d[k] \notin {"\"", "\n"}
    /\ Cardinality(IdLines(text)) = 1
    /\ \A i \in IdLines(text) :
         /\ LitAt(<<"\"">> \o d \o <<"\"">>, text, i + 3)
         /\ AtLineEnd(text, i + Len(d) + 5)

\* text is path, IsOwnedBy, then name-version: name has no whitespace and no
\* hyphen, version no whitespace, and neither is empty
OwnedBy(text, path, name, version) ==
    /\ name # <<>>
    /\ version # <<>>
    /\ \A k \in DOMAIN name : name[k] \notin Whitespace \cup {"-"}
    /\ \A k \in DOMAIN version : version[k] \notin Whitespace
    /\ text = path \o IsOwnedBy \o name \o <<"-">> \o version

\* the distro the one ID line of the text names between its quotes
IdBetweenQuotes(text) ==
    LET i == CHOOSE j \in IdLines(text) : TRUE
    IN  Slice(text, i + 4, SpanNotIn(text, i, {"\n"}) - 2)

\* the name and the version an ownership line for path names: the name ends
\* at the first hyphen after IsOwnedBy, the version is all that follows
OwnedName(text, path) ==
    LET t == Len(path) + Len(IsOwnedBy)
    IN  Slice(text, t + 1, SpanNotIn(text, t + 1, {"-"}) - 1)

OwnedVersion(text, path) ==
    LET t == Len(path) + Len(IsOwnedBy)
    IN  Slice(text, SpanNotIn(text, t + 1, {"-"}) + 1, Len(text))

\* the identity file is ID="d" and apk printed an ownership line for filepath
ApkCase ==
    /\ os_file.status = "ok"
    /\ IdLines(os_file.text) # {}
    /\ QuotedId(os_file.text, IdBetweenQuotes(os_file.text))
    /\ LastQueryIs("apk info")
    /\ check_output = "none"
    /\ OwnedBy(stdout, filepath, OwnedName(stdout, filepath), OwnedVersion(stdout, filepath))

\* C7: with ID="d" in the identity file and apk exiting zero with the output
\* <path> is owned by <name>-<version>, the call returns the apk record of
\* distro d (quotes stripped), that name and that version.
C7_ApkRecord ==
    ApkCase =>
        /\ pc = "returned"
        /\ outcome = "Provides"
        /\ ret = Provides(<<"a", "p", "k">>, IdBetweenQuotes(os_file.text),
                          OwnedName(stdout, filepath), OwnedVersion(stdout, filepath))

\* apk printed an ownership line whose version itself holds a hyphen
C7_Witness ==
    /\ ApkCase
    /\ \E k \in DOMAIN OwnedVersion(stdout, filepath) :
         OwnedVersion(stdout, filepath)[k] = "-"

\* text is four non-empty fields without whitespace, one space between them
FourFields(text, name, version, release, arch) ==
    /\ \A f \in {name, version, release, arch} :
         f # <<>> /\ \A k \in DOMAIN f : f[k] \notin Whitespace
    /\ text = name \o <<" ">> \o version \o <<" ">> \o release \o <<" ">> \o arch

Spaces(text) == {k \in DOMAIN text : text[k] = " "}

\* the field of the text that ends at its n-th space (at its end for n = 4)
Field(text, n) ==
    LET cuts == [k \in 0..4 |->
                   IF k = 0 THEN 0
                   ELSE IF k = 4 THEN Len(text) + 1
                   ELSE CHOOSE c \in Spaces(text) :
                          Cardinality({x \in Spaces(text) : x < c}) = k - 1]
    IN  Slice(text, cuts[n - 1] + 1, cuts[n] - 1)

\* rpm exited zero and printed four fields
RpmCase ==
    /\ LastQueryIs("rpm -qf")
    /\ check_output = "none"
    /\ Cardinality(Spaces(stdout)) = 3
    /\ FourFields(stdout, Field(stdout, 1), Field(stdout, 2), Field(stdout, 3),
                  Field(stdout, 4))

\* C8: when rpm exits zero printing <name> <version> <release> <arch>, the
\* call returns the rpm record with that name and the version
\* <version>-<release>, the architecture dropped, and the apt probe is not
\* attempted.
C8_RpmRecord ==
    RpmCase =>
        /\ pc = "returned"
        /\ outcome = "Provides"
        /\ ret = Provides(<<"r", "p", "m">>, distro, Field(stdout, 1),
                          Field(stdout, 2) \o <<"-">> \o Field(stdout, 3))
        /\ \A i \in DOMAIN events :
             events[i][2] \notin {"apt", "apt-file", "apt-file search", "apt show"}

\* rpm printed four fields of more than one character
C8_Witness ==
    /\ RpmCase
    /\ \A n \in 1..4 : Len(Field(stdout, n)) > 1

\* C9: a read of purl gives pkg:<type>/, then <distro>/ unless the distro is
\* absent or empty, then <name>@<version>, then one fixed qualifier that does
\* not depend on the record; the value is made from the fields as they are at
\* the read.
C9_PurlFormat ==
    purl_read # NoRead =>
        LET r == purl_read.of
            v == purl_read.value
            head == <<"p", "k", "g", ":">> \o r.package_type \o <<"/">>
            tail == r.package_name \o <<"@">> \o r.package_version
            rest == Len(v) - Len(head) - Len(tail) - Len(DistroQualifier)
        IN  /\ rest >= 0
            /\ Slice(v, 1, Len(head)) = head
            /\ Slice(v, Len(head) + 1, Len(head) + rest) =
                 (IF r.distro \in {None, <<>>} THEN <<>> ELSE r.distro \o <<"/">>)
            /\ Slice(v, Len(head) + rest + 1, Len(head) + rest + Len(tail)) = tail
            /\ Slice(v, Len(v) - Len(DistroQualifier) + 1, Len(v)) =
                 <<"?", "d", "i", "s", "t", "r", "o", "=",
                   "a", "l", "m", "a", "l", "i", "n", "u", "x", "-", "8">>

\* purl was read from a record without distro, and the record has since been
\* given another version
C9_Witness ==
    /\ purl_read # NoRead
    /\ purl_read.of.distro = None
    /\ ret.package_version # purl_read.of.package_version

\* C10: once a binary name has an entry in the cache (a path or False), no
\* later call changes or removes it.
C10_NeverInvalidated ==
    [][\A n \in BinaryNames : bins[n] # None => bins'[n] = bins[n]]_vars

\* a second call found apk in the cache and went on without searching for it
C10_Witness ==
    /\ calls = 2
    /\ pc = "dpkg"
    /\ Truthy(distro)
    /\ bins["apk"] # None
    /\ <<"cached", "apk">> \in EventSet

\* rpm exited zero and its trimmed output has fewer than three fields
RpmShort ==
    /\ LastQueryIs("rpm -qf")
    /\ check_output = "none"
    /\ Cardinality(Spaces(Strip(stdout))) < 2

\* C11: when rpm exits zero and its trimmed output has fewer than three
\* space-separated fields (empty output included), the rpm probe is a miss:
\* the call raises nothing and goes on with the apt probe, or returns None.
C11_RpmShortIsMiss ==
    RpmShort =>
        /\ outcome \in {"running", "Provides", "None"}
        /\ LastQuery < Len(events)
        /\ events[LastQuery + 1] = <<"miss", "rpm">>
        /\ <<"match", "rpm">> \notin EventSet

\* the last _package_manager_bin call found the binary and its --version
\* process could not be started, or exited with a code that is neither zero
\* nor accepted
VersionFailed ==
    \/ check_call.exc = "OSError"
    \/ /\ check_call.exc = "CalledProcessError"
       /\ check_call.returncode \notin bin_args.expect_returncodes

\* C12: when the binary is found and its --version process cannot be started
\* or exits with a code neither zero nor accepted, _package_manager_bin caches
\* False for the name and returns None; it raises nothing.
C12_FailedVersionIsAbsent ==
    VersionFailed =>
        /\ bins[bin_args.binaryname] = False
        /\ bin_ret = None
        /\ outcome # "OSError"

\* the text before the first colon of the text (empty when there is no colon)
LeadingName(text) ==
    IF \E c \in DOMAIN text : text[c] = ":"
    THEN Slice(text, 1, SpanNotIn(text, 1, {":"}) - 1)
    ELSE <<>>

\* the positions at which a line of the text begins with Version: and a value
VersionLines(text) ==
    {i \in DOMAIN text :
       /\ AtLineStart(text, i)
       /\ LitAt(VersionLit, text, i)
       /\ i + Len(VersionLit) <= Len(text)
       /\ text[i + Len(VersionLit)] \notin Whitespace}

\* the value of the first Version line of the text
VersionValue(text) ==
    LET v == Min(VersionLines(text)) + Len(VersionLit)
    IN  Slice(text, v, SpanNotIn(text, v, Whitespace) - 1)

\* the dpkg probe gave no record and the call goes on at the rpm probe
DpkgMissed ==
    /\ LastQuery < Len(events)
    /\ events[LastQuery + 1] = <<"miss", "dpkg">>
    /\ <<"match", "dpkg">> \notin EventSet
    /\ LastQuery + 1 = Len(events) => pc = "rpm" /\ outcome = "running"

\* C13: the dpkg probe returns a record if and only if dpkg -S exits zero with
\* a leading name before a colon and dpkg -s of that name exits zero with a
\* Version line; the record is then the deb record of the distro, that name and
\* that version.  When either step exits non-zero or a match is missing, no
\* record (and none without version) is returned, the probe is a miss and the
\* call goes on with rpm.
C13_DpkgBothSteps ==
    /\ LastQueryIs("dpkg -S") =>
         CASE check_output = "CalledProcessError" -> DpkgMissed
           [] check_output = "none" /\ LeadingName(stdout) = <<>> -> DpkgMissed
           [] check_output = "none" /\ LeadingName(stdout) # <<>> ->
                /\ pc = "dpkg_s"
                /\ outcome = "running"
                /\ package_name = LeadingName(stdout)
           [] OTHER -> outcome # "Provides"
    /\ LastQueryIs("dpkg -s") =>
         CASE check_output = "CalledProcessError" -> DpkgMissed
           [] check_output = "none" /\ VersionLines(stdout) = {} -> DpkgMissed
           [] check_output = "none" /\ VersionLines(stdout) # {} ->
                /\ pc = "returned"
                /\ outcome = "Provides"
                /\ events[Len(events)] = <<"match", "dpkg">>
                /\ ret = Provides(<<"d", "e", "b">>, distro, package_name,
                                  VersionValue(stdout))
           [] OTHER -> outcome # "Provides"
    /\ <<"match", "dpkg">> \in EventSet =>
         /\ LastQueryIs("dpkg -s")
         /\ events[LastQuery - 1] = Query("dpkg -S")
         /\ check_output = "none"
         /\ VersionLines(stdout) # {}
         /\ package_name # <<>>
         /\ ret.package_version # <<>>

\* dpkg -S named the package, dpkg -s exited zero without a Version line, and
\* the call is about to try rpm
C13_Witness ==
    /\ LastQueryIs("dpkg -s")
    /\ check_output = "none"
    /\ stdout # <<>>
    /\ VersionLines(stdout) = {}
    /\ pc = "rpm"

\* the binaries a query process needs to have been located
BinariesOfQuery(who) ==
    CASE who = "apk info" -> {"apk"}
      [] who \in {"dpkg -S", "dpkg -s"} -> {"dpkg"}
      [] who = "rpm -qf" -> {"rpm"}
      [] who \in {"apt-file search", "apt show"} -> {"apt", "apt-file"}

\* the probe a binary is a prerequisite of
ProbeOfBinary(binaryname) ==
    CASE binaryname = "apk" -> "apk"
      [] binaryname = "dpkg" -> "dpkg"
      [] binaryname = "rpm" -> "rpm"
      [] binaryname \in {"apt", "apt-file"} -> "apt"

\* where a probe stands once the binary has been located as usable
AfterLocated(binaryname) ==
    CASE binaryname = "apk" -> "apk_info"
      [] binaryname = "dpkg" -> "dpkg_S"
      [] binaryname = "rpm" -> "rpm_qf"
      [] binaryname = "apt" -> "apt_file"
      [] binaryname = "apt-file" -> "apt_file_search"

\* the last thing the call did was to look for the binary of a probe
JustLocated ==
    /\ os_file # NoFile
    /\ bin_args # NoArgs
    /\ events # <<>>
    /\ events[Len(events)][1] \in {"which", "cached", "version", "skip"}
    /\ events[Len(events)][2] \in {bin_args.binaryname, ProbeOfBinary(bin_args.binaryname)}

\* C14: a query process is invoked only when the distro is known and every
\* binary it needs has been located as usable in this call; a prerequisite
\* that fails (binary not found, or failing its --version check) is a skip of
\* that probe only: the call goes on at the next probe, and a probe whose own
\* binary is located as usable is attempted whatever happened to the earlier
\* ones.
C14_PrerequisiteGates ==
    /\ \A i \in QueryIndexes :
         /\ Truthy(distro)
         /\ \A n \in BinariesOfQuery(events[i][2]) :
              /\ Truthy(local_bins[n])
              /\ bins[n] = local_bins[n]
              /\ \E j \in 1..(i - 1) : events[j] \in {<<"which", n>>, <<"cached", n>>}
    /\ (JustLocated /\ (~Truthy(bin_ret) \/ VersionFailed)) =>
         LET probe == ProbeOfBinary(bin_args.binaryname)
         IN  /\ events[Len(events)] = <<"skip", probe>>
             /\ \/ pc = NextProbeAt(probe) /\ outcome = "running"
                \/ probe = "apt" /\ pc = "returned" /\ outcome = "None"
    /\ (JustLocated /\ Truthy(bin_ret) /\ ~VersionFailed) =>
         /\ pc = AfterLocated(bin_args.binaryname)
         /\ outcome = "running"

\* C15: the apt probe queries only with a known distro and both apt and
\* apt-file located as usable; within whichprovides an exit code 2 of
\* apt-file --version is cached as usable (the path), while any other non-zero
\* exit code of apt-file, and any non-zero exit code of apk, dpkg, rpm or apt,
\* is cached as absent; when apt or apt-file is absent the apt probe is skipped
\* without a query and the call returns None.
C15_AptPrerequisites ==
    /\ \A i \in QueryIndexes :
         events[i][2] \in {"apt-file search", "apt show"} =>
           /\ Truthy(distro)
           /\ Truthy(local_bins["apt"]) /\ bins["apt"] = local_bins["apt"]
           /\ Truthy(local_bins["apt-file"]) /\ bins["apt-file"] = local_bins["apt-file"]
    /\ (os_file # NoFile /\ check_call.exc = "CalledProcessError") =>
         LET n == bin_args.binaryname
         IN  IF n = "apt-file" /\ check_call.returncode = 2
             THEN /\ bins[n] \in {<<d, n>> : d \in SearchDirs}
                  /\ local_bins[n] = bins[n]
             ELSE /\ bins[n] = False
                  /\ local_bins[n] = None
    /\ (/\ JustLocated
        /\ bin_args.binaryname \in {"apt", "apt-file"}
        /\ check_call.exc # "OSError"
        /\ ~Truthy(bin_ret)) =>
         /\ events[Len(events)] = <<"skip", "apt">>
         /\ \A i \in QueryIndexes : events[i][2] \notin {"apt-file search", "apt show"}
         /\ \/ pc = "end" /\ outcome = "running"
            \/ pc = "returned" /\ outcome = "None"

\* apt-file --version exited with code 2 and the call is about to run
\* apt-file search
C15_Witness ==
    /\ pc = "apt_file_search"
    /\ bin_args.binaryname = "apt-file"
    /\ check_call = [exc |-> "CalledProcessError", returncode |-> 2]
    /\ Truthy(local_bins["apt"])

\* the line of the text that begins at position i
LineAt(text, i) == Slice(text, i, SpanNotIn(text, i, {"\n"}) - 1)

\* the positions at which a line of the text reads
\* <path> is owned by <name>-<version>
OwnershipLines(text, path) ==
    {i \in DOMAIN text :
       /\ AtLineStart(text, i)
       /\ OwnedBy(LineAt(text, i), path, OwnedName(LineAt(text, i), path),
                  OwnedVersion(LineAt(text, i), path))}

\* C16: when apk exits zero and some line of its output reads
\* <path> is owned by <name>-<version>, the call returns the apk record with
\* that name and the version up to the end of that line, also when the line
\* ends with a newline or other lines follow it.
C16_ApkAnyLine ==
    (/\ LastQueryIs("apk info")
     /\ check_output = "none"
     /\ OwnershipLines(stdout, filepath) # {}) =>
        LET line == LineAt(stdout, Min(OwnershipLines(stdout, filepath)))
        IN  /\ outcome = "Provides"
            /\ ret = Provides(<<"a", "p", "k">>, distro, OwnedName(line, filepath),
                              OwnedVersion(line, filepath))

\* what spec and code agree _package_manager_bin makes of the answers the host
\* gave for a name: False when it is not found or its --version exit code is
\* neither zero nor accepted, else its path
Resolution(n) ==
    LET which == CHOOSE w \in host.which[n] : TRUE
        proc == CHOOSE p \in host.version[n] : TRUE
    IN  IF which = None THEN False
        ELSE IF proc.returncode = 0 \/ proc.returncode \in ExpectReturncodes(n) THEN which
        ELSE False

C17_SameValue ==
    \A n \in BinaryNames :
      /\ Cardinality(written[n]) <= 1
      /\ bins[n] # None => written[n] = {bins[n]} /\ bins[n] = Resolution(n)
      /\ searched[n] <= calls /\ spawned[n] <= searched[n]

C17_NeverOverwritten ==
    \A n \in BinaryNames : bins[n] # None => bins'[n] = bins[n]

\* C17: with several threads in _package_manager_bin at once on an unchanged
\* host, in every interleaving of their reads and writes of the cache, all
\* writes for one name store the same value, a resolved entry is never
\* replaced by another value, and the entry is what the host's answers for the
\* name determine; the race only repeats the search and the --version spawn.
C17_IdempotentWrites == [](C17_SameValue) /\ [][C17_NeverOverwritten]_vars

\* two threads both read no entry for the same name, both searched and both
\* spawned --version, and both have stored
C17_Witness ==
    \E n \in BinaryNames :
      /\ searched[n] = 2
      /\ spawned[n] = 2
      /\ bins[n] \notin {None, False}
      /\ \A t \in Threads : threads[t].pc = "return" /\ threads[t].binaryname = n

C18_SameOutcome ==
    /\ \A f \in DOMAIN seen : \A x, y \in seen[f] :
         /\ x.outcome = y.outcome
         /\ x.ret = y.ret
         /\ x.first => x.cached = {}
    /\ pc = "returned" =>
         \A x \in seen[filepath] : x.outcome = outcome /\ x.ret = ret

C18_NoWorkForResolved ==
    \A n \in BinaryNames :
      (bins[n] # None /\ restarts' = restarts) =>
         /\ searched'[n] = searched[n]
         /\ spawned'[n] = spawned[n]
         /\ bins'[n] = bins[n]

\* C18: on a host that does not change, a whichprovides call for a path ends
\* the same way (same record, None, or same exception) whether the process has
\* just started with an empty cache or the cache holds what earlier
\* whichprovides calls of the process left in it; and with the warmed cache no
\* name that has an entry is searched for or has its --version spawned.
C18_MemoizationTransparent == [](C18_SameOutcome) /\ [][C18_NoWorkForResolved]_vars

\* a new process has just made, as its first call, the call for a path that
\* the process before had made only after a call for the other path, with
\* names answered from the cache; it returned a record
C18_Witness ==
    /\ pc = "returned"
    /\ restarts = 1
    /\ calls = 1
    /\ outcome = "Provides"
    /\ seen[filepath] # {}
    /\ \A x \in seen[filepath] : ~x.first /\ x.cached # {}

====
